---- MODULE Spec2Model ----
(***************************************************************************)
(* LatexProjectTranslator (main.py): the per-body translate loop, the      *)
(* response extraction, the project orchestration of translate_project     *)
(* and the usage aggregation of get_total_usage.                           *)
(*                                                                         *)
(* Text is a sequence of one-character strings (a few multi-character      *)
(* tokens stand for the literal markers the code inserts).  The coroutine  *)
(* translate_project is cut at its suspension points: the await on the     *)
(* completion client and the await on the output file.                     *)
(***************************************************************************)
EXTENDS Integers, Sequences, FiniteSets, TLC

VARIABLES
    source,                 \* self.source: keys (in mapping order), main_source, nodes, texts
    chunk_size,             \* the splitter's chunk_size
    translation_responses,  \* self.translation_responses
    translated_chunks,      \* self.translated_chunks
    pc,                     \* position of the translate_project coroutine
    cur,                    \* the source whose body is being translated
    text_chunks,            \* translate: text_chunks
    k,                      \* translate: index of the chunk whose request is outstanding
    parts,                  \* translate: the local list translated_chunks
    translated_txt,         \* translate_project: translated_txt (<<>> while unset)
    text_before,            \* translate_project: text_before_document_env
    text_after,             \* translate_project: text_after_document_env
    pending,                \* auxiliary sources the for loop has still to visit
    disk,                   \* to_dir: artifact name -> text written
    events,                 \* what the current run did, in order
    run,                    \* number of translate_project invocations so far
    earlier,                \* whether a run before the current one recorded a response
    usage_result,           \* the last value returned by get_total_usage (<<>> if none)
    estimate,               \* the last estimate returned: <<function, text, value>> (<<>> if none)
    ex_payload,             \* extraction: the payload the input is built from
    ex_wrapped,             \* extraction: whether the input is the fenced payload
    ex_out                  \* extraction: results of successive extractions

vars == <<source, chunk_size, translation_responses, translated_chunks, pc, cur,
          text_chunks, k, parts, translated_txt, text_before, text_after, pending,
          disk, events, run, earlier, usage_result, estimate, ex_payload, ex_wrapped,
          ex_out>>

runVars == <<source, chunk_size, translation_responses, translated_chunks, pc, cur,
             text_chunks, k, parts, translated_txt, text_before, text_after, pending,
             disk, events, run, earlier>>

exVars == <<ex_payload, ex_wrapped, ex_out>>

queryVars == <<usage_result, estimate>>

----------------------------------------------------------------------------
(* Bounds *)

MaxText == 4        \* characters of text to translate in a project, all bodies together
MaxRuns == 2        \* translate_project invocations on one translator
MaxStubText == 3    \* characters of the text translated against the stub client
MaxPayload == 4     \* characters of an extraction payload
MaxResponses == 3   \* recorded responses when get_total_usage is called

----------------------------------------------------------------------------
(* Text *)

BT == "bt"   \* stands for the backtick character
NL == "\n"
Fence == <<BT, BT, BT>>

StrUpTo(A, n) == UNION { [1..m -> A] : m \in 0..n }

MinOf(S) == CHOOSE x \in S : \A y \in S : x <= y

RECURSIVE Join_Newline(_)
Join_Newline(ss) ==
    IF ss = <<>> THEN <<>>
    ELSE IF Tail(ss) = <<>> THEN Head(ss)
    ELSE Head(ss) \o <<NL>> \o Join_Newline(Tail(ss))

\* ''.join(translated_chunks)
RECURSIVE Join(_)
Join(ss) == IF ss = <<>> THEN <<>> ELSE Head(ss) \o Join(Tail(ss))

UpperMap == [c \in {"a", "p", "q", "r", "s", "t", "w", "x", "y", "z"} |->
               CASE c = "a" -> "A" [] c = "p" -> "P" [] c = "q" -> "Q"
                 [] c = "r" -> "R" [] c = "s" -> "S" [] c = "t" -> "T"
                 [] c = "w" -> "W" [] c = "x" -> "X" [] c = "y" -> "Y"
                 [] c = "z" -> "Z"]

Upper(s) == [i \in 1..Len(s) |-> IF s[i] \in DOMAIN UpperMap THEN UpperMap[s[i]] ELSE s[i]]

----------------------------------------------------------------------------
(* Response extraction: re.search(triple_backticks_pattern, txt, re.DOTALL) *)
(* and str.replace of the triple backtick by the empty string              *)

IsFenceAt(s, i) == i >= 1 /\ i + 2 <= Len(s) /\ s[i] = BT /\ s[i+1] = BT /\ s[i+2] = BT

\* re.DOTALL: the dot matches every character, the newline included
DotMatches(c) == TRUE

\* positions where the closing fence can start when the opening one starts at i:
\* the group (.+?) holds at least one character, each matched by the dot
MatchEnds(s, i) ==
    { j \in (i + 4)..Len(s) : IsFenceAt(s, j) /\ \A m \in (i + 3)..(j - 1) : DotMatches(s[m]) }

MatchStarts(s) == { i \in 1..Len(s) : IsFenceAt(s, i) /\ MatchEnds(s, i) # {} }

\* leftmost match, shortest group
Search(s) ==
    IF MatchStarts(s) = {} THEN [found |-> FALSE, group |-> <<>>]
    ELSE LET i == MinOf(MatchStarts(s))
             j == MinOf(MatchEnds(s, i))
         IN [found |-> TRUE, group |-> SubSeq(s, i + 3, j - 1)]

RECURSIVE StripFences_Once(_)
StripFences_Once(s) ==
    IF Len(s) < 3 THEN s
    ELSE IF IsFenceAt(s, 1) THEN SubSeq(s, 4, Len(s))
    ELSE <<s[1]>> \o StripFences_Once(Tail(s))

\* non-overlapping occurrences removed left to right
RECURSIVE StripFences(_)
StripFences(s) ==
    IF Len(s) < 3 THEN s
    ELSE IF IsFenceAt(s, 1) THEN StripFences(SubSeq(s, 4, Len(s)))
    ELSE <<s[1]>> \o StripFences(Tail(s))

Extract_RawFallback(txt) ==
    LET match == Search(txt)
    IN IF match.found THEN StripFences(match.group) ELSE txt

\* lines 35-40: the fenced group, or else the whole text, without triple backticks
Extract(txt) ==
    LET match == Search(txt)
    IN IF match.found THEN StripFences(match.group) ELSE StripFences(txt)

HasFence(s) == \E i \in 1..Len(s) : IsFenceAt(s, i)

NoBacktick(s) == \A i \in 1..Len(s) : s[i] # BT

----------------------------------------------------------------------------
(* The project: LatexSourcesLoader.sources, a mapping in key order, and     *)
(* main_source                                                             *)

Names == {"m.tex", "a.tex", "b.tex"}

BaseText(name) ==
    CASE name = "m.tex" -> <<"w", "x", "y", "z">>
      [] name = "a.tex" -> <<"p", "q", "p", "q">>
      [] name = "b.tex" -> <<"r", "s", "r", "s">>

Prefixes(s, n) == { SubSeq(s, 1, m) : m \in 0..(IF n < Len(s) THEN n ELSE Len(s)) }

\* key orders: sequences of distinct source names
KeyOrders ==
    { ks \in UNION { [1..n -> Names] : n \in 1..Cardinality(Names) } :
        \A i, j \in 1..Len(ks) : i # j => ks[i] # ks[j] }

\* top-level nodes of the main source
TextNode(t) == [env |-> FALSE, text |-> <<t>>]
DocNode(inner) == [env |-> TRUE, text |-> inner]

Layouts(inner) ==
    { <<DocNode(inner)>>,
      <<TextNode("%pre"), DocNode(inner), TextNode("%post")>>,
      <<TextNode("%pre"), TextNode("%post")>> }

\* characters of the document environments and of the auxiliary sources
TotalText(src) ==
    LET docs == { i \in 1..Len(src.nodes) : src.nodes[i].env }
        inner == IF docs = {} THEN 0 ELSE Len(src.nodes[CHOOSE i \in docs : TRUE].text)
    IN inner + Len(src.texts["a.tex"]) + Len(src.texts["b.tex"])

KeySet(ks) == { ks[i] : i \in 1..Len(ks) }

\* the text of an auxiliary source: present only under a key of the mapping
AuxTexts(ks) ==
    { tx \in [ Names \ {"m.tex"} -> UNION { Prefixes(BaseText(n), MaxText) : n \in Names } ] :
        \A n \in Names \ {"m.tex"} :
            tx[n] \in (IF n \in KeySet(ks) THEN Prefixes(BaseText(n), MaxText) ELSE {<<>>}) }

Projects ==
    { src \in UNION { { [keys |-> ks, main_source |-> "m.tex", nodes |-> ns, texts |-> tx] :
                          ns \in UNION { Layouts(inner) :
                                           inner \in Prefixes(BaseText("m.tex"), MaxText) },
                          tx \in AuxTexts(ks) } :
                      ks \in { q \in KeyOrders : "m.tex" \in KeySet(q)
                                                 /\ ("b.tex" \in KeySet(q) => "a.tex" \in KeySet(q)) } } :
        TotalText(src) <= MaxText }

----------------------------------------------------------------------------
(* Collaborators of main.py                                                *)

\* LatexSourceSplitter.split_text: consecutive chunks of at most size units,
\* which concatenate to the text; the empty text has no chunk
RECURSIVE split_text(_, _)
split_text(text, size) ==
    IF text = <<>> THEN <<>>
    ELSE IF Len(text) <= size THEN <<text>>
    ELSE <<SubSeq(text, 1, size)>> \o split_text(SubSeq(text, size + 1, Len(text)), size)

\* LatexSourcesLoader.find_env_node(node, 'document')
find_env_node(node) == node.env

\* LatexSourcesLoader.get_text_from_nodes on a node list
get_text_from_nodes(text) == text

\* LatexSourcesLoader.get_text_from_nodes on document_nodes, which is <<>> for
\* None: the inner segment is then empty
get_text_from_document_nodes(document_nodes) ==
    IF document_nodes = <<>> THEN <<>> ELSE get_text_from_nodes(document_nodes[1])

\* node.latex_verbatim()
latex_verbatim(node) ==
    IF node.env THEN <<"\\begin{document}">> \o node.text \o <<"\\end{document}">>
    ELSE node.text

FullUsage == [prompt_tokens |-> 10, completion_tokens |-> 5]

\* the stub completion: the fenced upper case of the chunk
StubResponse(chunk) == [choices |-> Fence \o Upper(chunk) \o Fence, usage |-> FullUsage]

\* what async_chat_completion may return for a chunk: the fenced answer, an
\* answer without fence and without usage, a response without choices
Responses(chunk) ==
    { StubResponse(chunk),
      [choices |-> Upper(chunk)],
      [usage |-> FullUsage] }

----------------------------------------------------------------------------
(* Events of a run                                                         *)

Ev(type, body, idx, data) == [type |-> type, body |-> body, idx |-> idx, data |-> data]

ArtifactName_Fixed(name) == <<"translated_", "main.tex">>

\* f'translated_{source}'
ArtifactName(name) == <<"translated_", name>>

RECURSIVE Reverse(_)
Reverse(s) == IF s = <<>> THEN <<>> ELSE Reverse(Tail(s)) \o <<Head(s)>>

AuxSources_Reversed(src) ==
    Reverse(SelectSeq(src.keys, LAMBDA n : n # src.main_source))

\* for source in self.source.sources.keys(): if source == main_source: continue
AuxSources(src) == SelectSeq(src.keys, LAMBDA n : n # src.main_source)

----------------------------------------------------------------------------
(* translate_project, lines 79-92: the walk over the main source's nodes   *)

BeginMarker == <<"\n\\begin{document}\n">>
EndMarker == <<"\n\\end{document}">>

RECURSIVE WalkNodes_NoContinue(_, _)
WalkNodes_NoContinue(nodes, st) ==
    IF nodes = <<>> THEN st
    ELSE LET node == Head(nodes)
             st1 == IF find_env_node(node)
                    THEN [st EXCEPT !.document_nodes = <<node.text>>]
                    ELSE st
         IN IF st1.document_nodes = <<>>
            THEN WalkNodes_NoContinue(Tail(nodes),
                                      [st1 EXCEPT !.before = @ \o latex_verbatim(node)])
            ELSE WalkNodes_NoContinue(Tail(nodes),
                                      [st1 EXCEPT !.after = @ \o latex_verbatim(node)])

RECURSIVE WalkNodes_Inverted(_, _)
WalkNodes_Inverted(nodes, st) ==
    IF nodes = <<>> THEN st
    ELSE LET node == Head(nodes)
         IN IF find_env_node(node)
            THEN WalkNodes_Inverted(Tail(nodes), [st EXCEPT !.document_nodes = <<node.text>>])
            ELSE IF st.document_nodes # <<>>
            THEN WalkNodes_Inverted(Tail(nodes), [st EXCEPT !.before = @ \o latex_verbatim(node)])
            ELSE WalkNodes_Inverted(Tail(nodes), [st EXCEPT !.after = @ \o latex_verbatim(node)])

\* lines 83-91
RECURSIVE WalkNodes(_, _)
WalkNodes(nodes, st) ==
    IF nodes = <<>> THEN st
    ELSE LET node == Head(nodes)
         IN IF find_env_node(node)
            THEN WalkNodes(Tail(nodes), [st EXCEPT !.document_nodes = <<node.text>>])
            ELSE IF st.document_nodes = <<>>
            THEN WalkNodes(Tail(nodes), [st EXCEPT !.before = @ \o latex_verbatim(node)])
            ELSE WalkNodes(Tail(nodes), [st EXCEPT !.after = @ \o latex_verbatim(node)])

\* document_nodes is <<>> for None and <<inner>> otherwise
MainWalk(src) ==
    LET st == WalkNodes(src.nodes, [document_nodes |-> <<>>, before |-> <<>>, after |-> EndMarker])
    IN [st EXCEPT !.before = @ \o BeginMarker]

----------------------------------------------------------------------------
(* translate, lines 23-41                                                  *)

EnterTranslate_RequestEmpty(body, txt, ev0) ==
    LET split == split_text(txt, chunk_size)
        chunks == IF split = <<>> THEN << <<>> >> ELSE split
        evt == Append(ev0, Ev("translate", body, 0, txt))
    IN /\ cur' = body
       /\ text_chunks' = chunks
       /\ parts' = <<>>
       /\ k' = 1
       /\ translated_txt' = <<>>
       /\ pc' = "await"
       /\ events' = Append(evt, Ev("request", body, 1, chunks[1]))

EnterTranslate_Burst(body, txt, ev0) ==
    LET chunks == split_text(txt, chunk_size)
        evt == Append(ev0, Ev("translate", body, 0, txt))
    IN /\ cur' = body
       /\ text_chunks' = chunks
       /\ parts' = <<>>
       /\ IF chunks = <<>>
          THEN /\ k' = 0
               /\ translated_txt' = << <<>> >>
               /\ pc' = "writing"
               /\ events' = evt
          ELSE /\ k' = 1
               /\ translated_txt' = <<>>
               /\ pc' = "await"
               /\ events' = evt \o [i \in 1..Len(chunks) |-> Ev("request", body, i, chunks[i])]

\* entry of translate(txt) for a body, up to the first await or, for a text
\* without chunks, up to its return
EnterTranslate(body, txt, ev0) ==
    LET chunks == split_text(txt, chunk_size)
        evt == Append(ev0, Ev("translate", body, 0, txt))
    IN /\ cur' = body
       /\ text_chunks' = chunks
       /\ parts' = <<>>
       /\ IF chunks = <<>>
          THEN /\ k' = 0
               /\ translated_txt' = << <<>> >>
               /\ pc' = "writing"
               /\ events' = evt
          ELSE /\ k' = 1
               /\ translated_txt' = <<>>
               /\ pc' = "await"
               /\ events' = Append(evt, Ev("request", body, 1, chunks[1]))

\* the snapshot the chunk callback observes when it fires
CallbackEvent(n, responses) == Ev("chunk_cb", cur, k, <<n, Len(responses)>>)

RecordResponse_Front(responses, r) == <<r>> \o responses

\* line 34: self.translation_responses.append(response)
RecordResponse(responses, r) == Append(responses, r)

\* lines 31-41 for the response r to chunk k
RecordAndContinue(r) ==
    /\ translated_chunks' = translated_chunks + 1
    /\ translation_responses' = RecordResponse(translation_responses, r)
    /\ LET ev == events \o << Ev("response", cur, k, <<r>>),
                              CallbackEvent(translated_chunks + 1, translation_responses) >>
       IN IF "choices" \notin DOMAIN r
          THEN /\ pc' = "aborted"
               /\ events' = Append(ev, Ev("raise", cur, k, <<"KeyError">>))
               /\ UNCHANGED <<k, parts, translated_txt>>
          ELSE LET ps == Append(parts, Extract(r.choices))
               IN /\ parts' = ps
                  /\ IF k < Len(text_chunks)
                     THEN /\ k' = k + 1
                          /\ pc' = "await"
                          /\ translated_txt' = <<>>
                          /\ events' = Append(ev, Ev("request", cur, k + 1, text_chunks[k + 1]))
                     ELSE /\ k' = k
                          /\ pc' = "writing"
                          /\ translated_txt' = << Join(ps) >>
                          /\ events' = ev

\* the completion client answers the outstanding request
CompletionReturns ==
    /\ pc = "await"
    /\ \E r \in Responses(text_chunks[k]) : RecordAndContinue(r)
    /\ UNCHANGED <<source, chunk_size, cur, text_chunks, text_before, text_after,
                   pending, disk, run, earlier, queryVars, exVars>>

CompletionFails_WritesPartial ==
    /\ pc = "await"
    /\ pc' = "aborted"
    /\ events' = Append(events, Ev("fail", cur, k, <<"CompletionError">>))
    /\ disk' = (ArtifactName(cur) :> Join(parts)) @@ disk
    /\ UNCHANGED <<source, chunk_size, translation_responses, translated_chunks, cur,
                   text_chunks, k, parts, translated_txt, text_before, text_after,
                   pending, run, earlier, queryVars, exVars>>

CompletionFails_Swallowed ==
    /\ pc = "await"
    /\ pc' = "writing"
    /\ translated_txt' = << Join(parts) >>
    /\ events' = Append(events, Ev("fail", cur, k, <<"CompletionError">>))
    /\ UNCHANGED <<source, chunk_size, translation_responses, translated_chunks, cur,
                   text_chunks, k, parts, text_before, text_after,
                   pending, disk, run, earlier, queryVars, exVars>>

\* the completion client raises: the exception leaves translate and
\* translate_project
CompletionFails ==
    /\ pc = "await"
    /\ pc' = "aborted"
    /\ events' = Append(events, Ev("fail", cur, k, <<"CompletionError">>))
    /\ UNCHANGED <<source, chunk_size, translation_responses, translated_chunks, cur,
                   text_chunks, k, parts, translated_txt, text_before, text_after,
                   pending, disk, run, earlier, queryVars, exVars>>

\* the completion client answers and complete_chunk_cb raises (line 33)
ChunkCallbackRaises ==
    /\ pc = "await"
    /\ \E r \in Responses(text_chunks[k]) :
         events' = events \o << Ev("response", cur, k, <<r>>),
                                CallbackEvent(translated_chunks + 1, translation_responses),
                                Ev("raise", cur, k, <<"callback">>) >>
    /\ translated_chunks' = translated_chunks + 1
    /\ pc' = "aborted"
    /\ UNCHANGED <<source, chunk_size, translation_responses, cur, text_chunks, k, parts,
                   translated_txt, text_before, text_after, pending, disk, run,
                   earlier, queryVars, exVars>>

----------------------------------------------------------------------------
(* translate_project, lines 75-118                                         *)

ResetRunState_Keep == UNCHANGED <<translation_responses, translated_chunks>>

\* lines 76-77
ResetRunState ==
    /\ translation_responses' = <<>>
    /\ translated_chunks' = 0

\* lines 76-95, up to the first await
StartProject ==
    /\ pc \in {"idle", "done", "aborted"}
    /\ run < MaxRuns
    /\ run' = run + 1
    /\ earlier' = (earlier \/ translation_responses # <<>>)
    /\ ResetRunState
    /\ LET w == MainWalk(source)
           ev == << Ev("ongoing", source.main_source, 0, <<>>) >>
       IN /\ text_before' = w.before
          /\ text_after' = w.after
          /\ pending' = AuxSources(source)
          /\ EnterTranslate(source.main_source,
                            get_text_from_document_nodes(w.document_nodes), ev)
    /\ UNCHANGED <<source, chunk_size, disk, queryVars, exVars>>

\* the text written for the body just translated
OutputText(body) ==
    IF body = source.main_source
    THEN text_before \o translated_txt[1] \o text_after
    ELSE translated_txt[1]

\* lines 102-105 and 116-117, then the for loop up to the next await
WriteArtifact ==
    /\ pc = "writing"
    /\ disk' = (ArtifactName(cur) :> OutputText(cur)) @@ disk
    /\ LET ev == Append(events, Ev("write", cur, 0, <<ArtifactName(cur), OutputText(cur)>>))
       IN IF pending = <<>>
          THEN /\ pc' = "done"
               /\ events' = ev
               /\ UNCHANGED <<cur, text_chunks, k, parts, translated_txt, pending>>
          ELSE /\ pending' = Tail(pending)
               /\ EnterTranslate(Head(pending), get_text_from_nodes(source.texts[Head(pending)]),
                                 Append(ev, Ev("ongoing", Head(pending), 0, <<>>)))
    /\ UNCHANGED <<source, chunk_size, translation_responses, translated_chunks,
                   text_before, text_after, run, earlier, queryVars, exVars>>

----------------------------------------------------------------------------
(* get_total_usage, lines 120-131                                          *)

UsageStep_CopyPaste(tot, r) ==
    IF "usage" \notin DOMAIN r THEN tot
    ELSE IF "prompt_tokens" \notin DOMAIN r.usage THEN tot
    ELSE IF "completion_tokens" \notin DOMAIN r.usage
    THEN [tot EXCEPT !.prompt = @ + r.usage.prompt_tokens]
    ELSE [prompt |-> tot.prompt + r.usage.prompt_tokens,
          completion |-> tot.completion + r.usage.prompt_tokens]

\* the body of the for loop: a KeyError leaves what was added before it
UsageStep(tot, r) ==
    IF "usage" \notin DOMAIN r THEN tot
    ELSE IF "prompt_tokens" \notin DOMAIN r.usage THEN tot
    ELSE IF "completion_tokens" \notin DOMAIN r.usage
    THEN [tot EXCEPT !.prompt = @ + r.usage.prompt_tokens]
    ELSE [prompt |-> tot.prompt + r.usage.prompt_tokens,
          completion |-> tot.completion + r.usage.completion_tokens]

RECURSIVE UsageLoop(_, _)
UsageLoop(tot, responses) ==
    IF responses = <<>> THEN tot
    ELSE UsageLoop(UsageStep(tot, Head(responses)), Tail(responses))

get_total_usage(responses) ==
    LET tot == UsageLoop([prompt |-> 0, completion |-> 0], responses)
    IN <<tot.prompt, tot.completion>>

GetTotalUsage ==
    /\ pc \in {"idle", "done", "aborted"}
    /\ usage_result' = << get_total_usage(translation_responses) >>
    /\ UNCHANGED <<runVars, estimate, exVars>>

----------------------------------------------------------------------------
(* estimate_tokens_cost and estimate_total_work, lines 43-73               *)

\* ChatPromptTemplate.create_messages: the fixed instruction and the chunk
create_messages(chunk) ==
    << [role |-> "system", content |-> <<"translate">>],
       [role |-> "user", content |-> chunk] >>

\* count_tokens(text=t): one token per character
count_tokens_text(text) == Len(text)

\* count_tokens(messages=ms): the tokens of the contents
RECURSIVE count_tokens_messages(_)
count_tokens_messages(messages) ==
    IF messages = <<>> THEN 0
    ELSE count_tokens_text(Head(messages).content) + count_tokens_messages(Tail(messages))

\* lines 45-49
RECURSIVE MessageTokens(_)
MessageTokens(chunks) ==
    IF chunks = <<>> THEN 0
    ELSE count_tokens_messages(create_messages(Head(chunks))) + MessageTokens(Tail(chunks))

estimate_tokens_cost_NoText(text) ==
    LET chunks == split_text(text, chunk_size)
    IN << Len(chunks), MessageTokens(chunks) >>

\* lines 43-52
estimate_tokens_cost(text) ==
    LET chunks == split_text(text, chunk_size)
    IN << Len(chunks), MessageTokens(chunks) + count_tokens_text(text) >>

\* lines 55-59: the node list of the last node that holds the environment
RECURSIVE EstimateDocumentNodes(_, _)
EstimateDocumentNodes(nodes, document_nodes) ==
    IF nodes = <<>> THEN document_nodes
    ELSE EstimateDocumentNodes(Tail(nodes),
                               IF find_env_node(Head(nodes)) THEN << Head(nodes).text >>
                               ELSE document_nodes)

AllTexSources_NoSkip(src) ==
    << get_text_from_document_nodes(EstimateDocumentNodes(src.nodes, <<>>)) >>
    \o [i \in 1..Len(src.keys) |->
          IF src.keys[i] = src.main_source
          THEN Join([j \in 1..Len(src.nodes) |-> latex_verbatim(src.nodes[j])])
          ELSE get_text_from_nodes(src.texts[src.keys[i]])]

\* lines 61-66
AllTexSources(src) ==
    << get_text_from_document_nodes(EstimateDocumentNodes(src.nodes, <<>>)) >>
    \o [i \in 1..Len(AuxSources(src)) |-> get_text_from_nodes(src.texts[AuxSources(src)[i]])]

\* lines 68-73
RECURSIVE SumEstimates(_, _)
SumEstimates(texts, total) ==
    IF texts = <<>> THEN total
    ELSE LET e == estimate_tokens_cost(Head(texts))
         IN SumEstimates(Tail(texts), << total[1] + e[1], total[2] + e[2] >>)

estimate_total_work(src) == SumEstimates(AllTexSources(src), <<0, 0>>)

\* a call of estimate_tokens_cost on the text of one of the bodies
EstimateTokensCost ==
    /\ pc \in {"idle", "done", "aborted"}
    /\ estimate = <<>>
    /\ \E i \in 1..Len(AllTexSources(source)) :
         estimate' = << "estimate_tokens_cost", AllTexSources(source)[i],
                        estimate_tokens_cost(AllTexSources(source)[i]) >>
    /\ UNCHANGED <<runVars, usage_result, exVars>>

\* a call of estimate_total_work
EstimateTotalWork ==
    /\ pc \in {"idle", "done", "aborted"}
    /\ estimate = <<>>
    /\ estimate' = << "estimate_total_work", <<>>, estimate_total_work(source) >>
    /\ UNCHANGED <<runVars, usage_result, exVars>>

----------------------------------------------------------------------------
(* Response extraction applied to a text, and to its own result            *)

ExInput == IF ex_wrapped THEN Fence \o ex_payload \o Fence ELSE ex_payload

ExtractOnce ==
    /\ ex_out = <<>>
    /\ ex_out' = << Extract(ExInput) >>
    /\ UNCHANGED <<runVars, queryVars, ex_payload, ex_wrapped>>

ExtractAgain ==
    /\ Len(ex_out) = 1
    /\ ex_out' = Append(ex_out, Extract(ex_out[1]))
    /\ UNCHANGED <<runVars, queryVars, ex_payload, ex_wrapped>>

----------------------------------------------------------------------------
(* Specifications                                                          *)

\* a translator right after __init__ on the project src
Constructed(src, size) ==
    /\ source = src
    /\ chunk_size = size
    /\ translation_responses = <<>>
    /\ translated_chunks = 0
    /\ pc = "idle"
    /\ cur = src.main_source
    /\ text_chunks = <<>>
    /\ k = 0
    /\ parts = <<>>
    /\ translated_txt = <<>>
    /\ text_before = <<>>
    /\ text_after = <<>>
    /\ pending = <<>>
    /\ disk = <<>>
    /\ events = <<>>
    /\ run = 0
    /\ earlier = FALSE

NoExtraction ==
    /\ ex_payload = <<>>
    /\ ex_wrapped = FALSE
    /\ ex_out = <<>>

AnyProject == CHOOSE src \in Projects : src.keys = <<"m.tex">> /\ Len(src.nodes) = 1

\* project runs
Init ==
    /\ \E src \in Projects : Constructed(src, 1)
    /\ usage_result = <<>>
    /\ estimate = <<>>
    /\ NoExtraction

Next ==
    \/ StartProject
    \/ CompletionReturns
    \/ CompletionFails
    \/ ChunkCallbackRaises
    \/ WriteArtifact

Spec == Init /\ [][Next]_vars

\* one body of arbitrary text, translated in chunks of one or two characters
StubProjects ==
    { [keys |-> <<"m.tex">>, main_source |-> "m.tex", nodes |-> <<DocNode(inner)>>,
       texts |-> [n \in Names \ {"m.tex"} |-> <<>>]] :
        inner \in StrUpTo({"a", BT, NL}, MaxStubText) }

InitStub ==
    /\ \E src \in StubProjects, size \in 1..2 : Constructed(src, size)
    /\ usage_result = <<>>
    /\ estimate = <<>>
    /\ NoExtraction

SpecStub == InitStub /\ [][Next]_vars

\* one project run, in chunks of one or two characters, with an estimate
\* taken before or after it
InitEstimate ==
    /\ \E src \in Projects, size \in 1..2 : Constructed(src, size)
    /\ usage_result = <<>>
    /\ estimate = <<>>
    /\ NoExtraction

StartOnce == StartProject /\ run = 0

NextEstimate ==
    \/ StartOnce
    \/ CompletionReturns
    \/ CompletionFails
    \/ ChunkCallbackRaises
    \/ WriteArtifact
    \/ EstimateTokensCost
    \/ EstimateTotalWork

SpecEstimate == InitEstimate /\ [][NextEstimate]_vars

\* get_total_usage on the responses a finished run has recorded
UsageRecords ==
    { [prompt_tokens |-> 10, completion_tokens |-> 5],
      [prompt_tokens |-> 3, completion_tokens |-> 2],
      [prompt_tokens |-> 4],
      [completion_tokens |-> 6] }

UsageResponses ==
    { [choices |-> <<"A">>] } \cup { [choices |-> <<"A">>, usage |-> u] : u \in UsageRecords }

InitUsage ==
    /\ source = AnyProject
    /\ chunk_size = 1
    /\ translation_responses \in UNION { [1..n -> UsageResponses] : n \in 0..MaxResponses }
    /\ translated_chunks = Len(translation_responses)
    /\ pc = "done"
    /\ cur = source.main_source
    /\ text_chunks = <<>>
    /\ k = 0
    /\ parts = <<>>
    /\ translated_txt = << <<>> >>
    /\ text_before = <<>>
    /\ text_after = <<>>
    /\ pending = <<>>
    /\ disk = <<>>
    /\ events = <<>>
    /\ run = MaxRuns
    /\ earlier = FALSE
    /\ usage_result = <<>>
    /\ estimate = <<>>
    /\ NoExtraction

NextUsage == GetTotalUsage

SpecUsage == InitUsage /\ [][NextUsage]_vars

\* extraction of a text over backtick, letter and newline
InitExtract ==
    /\ Constructed(AnyProject, 1)
    /\ usage_result = <<>>
    /\ estimate = <<>>
    /\ ex_payload \in StrUpTo({"a", BT, NL}, MaxPayload)
    /\ ex_wrapped \in BOOLEAN
    /\ ex_out = <<>>

NextExtract ==
    \/ ExtractOnce
    \/ ExtractAgain

SpecExtract == InitExtract /\ [][NextExtract]_vars

----------------------------------------------------------------------------
(* Properties                                                              *)

EventsOf(type) == { i \in 1..Len(events) : events[i].type = type }

LastEvent == events[Len(events)]

KeyPos(name) == CHOOSE i \in 1..Len(source.keys) : source.keys[i] = name

\* the text of a body as translate_project hands it to translate
BodyText(name) ==
    IF name = source.main_source
    THEN LET docs == { i \in 1..Len(source.nodes) : source.nodes[i].env }
         IN IF docs = {} THEN <<>> ELSE source.nodes[CHOOSE i \in docs : \A j \in docs : j <= i].text
    ELSE source.texts[name]

NumChunks(name) == Len(split_text(BodyText(name), chunk_size))

\* C1: the ongoing-file callback fires at most once per body, for the main
\* source first and then for the auxiliary sources in key order; when the run
\* is done it has fired for every key; every request and every chunk callback
\* belongs to the body of the latest ongoing-file callback, which precedes it.
C1_OngoingOrder ==
    /\ \A i, j \in EventsOf("ongoing") :
         i < j => /\ events[i].body # events[j].body
                  /\ events[j].body # source.main_source
                  /\ events[i].body # source.main_source
                       => KeyPos(events[i].body) < KeyPos(events[j].body)
    /\ \A i \in EventsOf("ongoing") : events[i].body \in KeySet(source.keys)
    /\ pc = "done" => { events[i].body : i \in EventsOf("ongoing") } = KeySet(source.keys)
    /\ \A i \in EventsOf("request") \cup EventsOf("chunk_cb") :
         \E j \in EventsOf("ongoing") :
            /\ j < i
            /\ events[j].body = events[i].body
            /\ \A m \in EventsOf("ongoing") : m < i => m <= j

C1_Witness ==
    /\ pc = "done"
    /\ source.keys = <<"b.tex", "m.tex", "a.tex">>
    /\ \A n \in Names : \E i \in EventsOf("chunk_cb") : events[i].body = n

\* C2: an artifact is written for a body only after every chunk of the body
\* was answered and extracted; after a failure in a body no artifact of that
\* body is written in the run; the artifacts written earlier in the run are on
\* disk as written, and in the first run nothing else is on disk.
C2_WriteAfterBody ==
    /\ \A w \in EventsOf("write") :
         /\ \A c \in 1..NumChunks(events[w].body) :
              \E i \in EventsOf("response") :
                 i < w /\ events[i].body = events[w].body /\ events[i].idx = c
         /\ \A i \in EventsOf("fail") \cup EventsOf("raise") : w < i
         /\ events[w].data[1] \in DOMAIN disk
         /\ disk[events[w].data[1]] = events[w].data[2]
    /\ \A f \in EventsOf("fail") :
         \A w \in EventsOf("write") : events[w].body # events[f].body
    /\ run <= 1 => DOMAIN disk = { events[w].data[1] : w \in EventsOf("write") }

C2_Witness ==
    /\ pc = "aborted"
    /\ LastEvent.type = "fail"
    /\ LastEvent.idx = 2
    /\ LastEvent.body # source.main_source
    /\ EventsOf("write") # {}
    /\ run = 1

Failed == events # <<>> /\ LastEvent.type = "fail"

\* C3: once the completion client has failed, the run is over: the only step
\* the translator takes from there is a new translate_project invocation, the
\* disk and the run state stay as they were at the failure, and translate has
\* returned no text.
C3_FailureAborts ==
    [][ /\ Failed => /\ run' = run + 1
                     /\ disk' = disk
        /\ Failed' => /\ pc' = "aborted"
                      /\ translated_txt' = <<>>
                      /\ disk' = disk
                      /\ translation_responses' = translation_responses
                      /\ translated_chunks' = translated_chunks ]_vars

C3_Witness ==
    /\ Failed
    /\ pc = "aborted"
    /\ parts # <<>>
    /\ k < Len(text_chunks)
    /\ pending # <<>>
    /\ EventsOf("write") # {}

\* C4: at every firing of the chunk callback the response of the chunk is
\* already recorded, so that the callback observes len(translation_responses)
\* equal to translated_chunks.
C4_CallbackSeesRecorded ==
    \A i \in EventsOf("chunk_cb") : events[i].data[2] = events[i].data[1]

\* C5: when a run is done every key of the sources mapping was submitted to
\* translate exactly once and has exactly one artifact, named after it; no
\* artifact name is written twice in a run.
C5_OncePerBody ==
    /\ \A i, j \in EventsOf("write") : i # j => events[i].data[1] # events[j].data[1]
    /\ \A i, j \in EventsOf("translate") : i # j => events[i].body # events[j].body
    /\ pc = "done" =>
         \A n \in KeySet(source.keys) :
            /\ Cardinality({ i \in EventsOf("translate") : events[i].body = n }) = 1
            /\ Cardinality({ i \in EventsOf("write") : events[i].body = n }) = 1
            /\ \A i \in EventsOf("write") :
                 events[i].body = n => events[i].data[1] = <<"translated_", n>>

C5_Witness ==
    /\ pc = "done"
    /\ Len(source.keys) = 3
    /\ \A n \in Names : \E i \in EventsOf("response") : events[i].body = n
    /\ Cardinality(EventsOf("write")) = 3

RunResponses ==
    LET idx == EventsOf("response")
        nth(n) == CHOOSE i \in idx : Cardinality({ j \in idx : j < i }) = n - 1
    IN [n \in 1..Cardinality(idx) |-> events[nth(n)].data[1]]

\* C6: when a run is done the run state holds the responses of that run and
\* nothing of the runs before it, and get_total_usage reports their usage.
C6_ResetPerRun ==
    pc = "done" =>
       /\ translation_responses = RunResponses
       /\ translated_chunks = Cardinality(EventsOf("chunk_cb"))
       /\ get_total_usage(translation_responses) = get_total_usage(RunResponses)

C6_Witness ==
    /\ pc = "done"
    /\ run = 2
    /\ earlier
    /\ translation_responses # <<>>

RECURSIVE SumField(_, _)
SumField(responses, field) ==
    IF responses = <<>> THEN 0
    ELSE (IF "usage" \in DOMAIN Head(responses) THEN Head(responses).usage[field] ELSE 0)
         + SumField(Tail(responses), field)

\* every usage record present holds both counts
CompleteUsage(responses) ==
    \A i \in 1..Len(responses) :
       "usage" \in DOMAIN responses[i] =>
           DOMAIN responses[i].usage = {"prompt_tokens", "completion_tokens"}

UsageExample ==
    << [choices |-> <<"A">>, usage |-> [prompt_tokens |-> 10, completion_tokens |-> 5]],
       [choices |-> <<"A">>],
       [choices |-> <<"A">>, usage |-> [prompt_tokens |-> 3, completion_tokens |-> 2]] >>

\* C7: get_total_usage returns the sums of prompt_tokens and of
\* completion_tokens over the recorded responses that carry a usage record
\* (of both counts), skipping those without usage; it leaves the run state
\* unchanged; on the example it returns (13, 7).
C7_UsageTotals ==
    [][ usage_result' # usage_result =>
          /\ UNCHANGED runVars
          /\ CompleteUsage(translation_responses) =>
                usage_result' = << << SumField(translation_responses, "prompt_tokens"),
                                      SumField(translation_responses, "completion_tokens") >> >>
          /\ translation_responses = UsageExample => usage_result' = << <<13, 7>> >> ]_vars

C7_Witness ==
    /\ translation_responses = UsageExample
    /\ usage_result = << <<13, 7>> >>

\* the responses recorded for the body in translation were all the stub's
StubAnswered ==
    /\ pc = "writing"
    /\ Len(translation_responses) = Len(text_chunks)
    /\ \A i \in 1..Len(text_chunks) : translation_responses[i] = StubResponse(text_chunks[i])

RECURSIVE ConcatUpper(_)
ConcatUpper(chunks) ==
    IF chunks = <<>> THEN <<>> ELSE Upper(Head(chunks)) \o ConcatUpper(Tail(chunks))

\* C8 as stated: for every text, when the stub answers every chunk, translate
\* returns the upper case of the chunks in order, which is the upper case of
\* the text.
C8_StubEveryText ==
    StubAnswered =>
       /\ translated_txt = << ConcatUpper(text_chunks) >>
       /\ translated_txt = << Upper(BodyText(cur)) >>

\* C8 amended: for every text without a backtick character, when the stub
\* answers every chunk, translate returns the upper case of the chunks in
\* order without separators, which is the upper case of the text.
C8_StubNoBacktick ==
    (StubAnswered /\ NoBacktick(BodyText(cur))) =>
       /\ translated_txt = << ConcatUpper(text_chunks) >>
       /\ translated_txt = << Upper(BodyText(cur)) >>

C8_Witness ==
    /\ StubAnswered
    /\ BodyText(cur) = <<"a", NL, "a">>
    /\ Len(text_chunks) = 2
    /\ translated_txt = << <<"A", NL, "A">> >>

\* C9: extracting from the fenced payload yields the payload, for every
\* payload without a backtick character, the empty one and those with
\* newlines included.
C9_FenceRoundTrip ==
    (ex_wrapped /\ NoBacktick(ex_payload) /\ ex_out # <<>>) => ex_out[1] = ex_payload

C9_Witness ==
    /\ ex_wrapped
    /\ ex_payload = <<"a", NL, "a">>
    /\ ex_out # <<>>
    /\ ex_out[1] = ex_payload

\* C10: the extracted text holds no triple backtick, with or without a fence
\* in the input, and extracting again returns it unchanged.
C10_Idempotent ==
    /\ ex_out # <<>> => ~ HasFence(ex_out[1])
    /\ Len(ex_out) = 2 => ex_out[2] = ex_out[1]

C10_Witness ==
    /\ Len(ex_out) = 2
    /\ ~ ex_wrapped
    /\ HasFence(ex_payload)
    /\ ~ Search(ex_payload).found
    /\ ex_out[1] # <<>>

\* C11: a body whose text has no chunk is translated to the empty text at
\* once: no request, no response and no chunk callback belongs to it, the
\* counter and the response log are what the bodies before it left, and the
\* next thing the run does is to write its artifact.
C11_EmptyBody ==
    \A t \in EventsOf("translate") :
       split_text(events[t].data, chunk_size) = <<>> =>
          /\ \A i \in EventsOf("request") \cup EventsOf("response") \cup EventsOf("chunk_cb") :
                events[i].body # events[t].body
          /\ t = Len(events) =>
                /\ pc = "writing"
                /\ translated_txt = << <<>> >>
                /\ translated_chunks = Cardinality(EventsOf("chunk_cb"))
                /\ Len(translation_responses) = Cardinality(EventsOf("response"))
          /\ t < Len(events) =>
                /\ events[t + 1].type = "write"
                /\ events[t + 1].body = events[t].body
                /\ events[t].body # source.main_source => events[t + 1].data[2] = <<>>

C11_Witness ==
    /\ pc = "writing"
    /\ LastEvent.type = "translate"
    /\ cur # source.main_source
    /\ translation_responses # <<>>
    /\ translated_txt = << <<>> >>

\* the n-th smallest element of a set of positions
NthOf(S, n) == CHOOSE i \in S : Cardinality({ j \in S : j < i }) = n - 1

\* main source first, then the other keys in key order
BodyBefore(a, b) ==
    /\ a # b
    /\ b # source.main_source
    /\ a # source.main_source => KeyPos(a) < KeyPos(b)

RECURSIVE ConcatPayloads(_)
ConcatPayloads(responses) ==
    IF responses = <<>> THEN <<>>
    ELSE Extract(Head(responses).choices) \o ConcatPayloads(Tail(responses))

\* C12: requests are submitted main body first, then the auxiliary bodies in
\* key order, chunk by chunk; the n-th recorded response is the response to
\* the n-th request (and carries the translation of that chunk); the parts of
\* the body in translation, and the text translate returns, are the extracted
\* payloads of the body's responses in that order.
C12_SubmissionOrder ==
    LET reqs == EventsOf("request")
        nresp == Len(translation_responses)
    IN /\ \A i, j \in reqs :
            i < j => \/ events[i].body = events[j].body /\ events[i].idx < events[j].idx
                     \/ BodyBefore(events[i].body, events[j].body)
       /\ \A i \in reqs :
            /\ events[i].idx \in 1..NumChunks(events[i].body)
            /\ events[i].data = split_text(BodyText(events[i].body), chunk_size)[events[i].idx]
       /\ nresp <= Cardinality(reqs)
       /\ \A n \in 1..nresp :
            LET q == events[NthOf(reqs, n)]
                r == translation_responses[n]
            IN /\ \E i \in EventsOf("response") :
                    /\ events[i].body = q.body
                    /\ events[i].idx = q.idx
                    /\ events[i].data = <<r>>
               /\ "choices" \in DOMAIN r => Extract(r.choices) = Upper(q.data)
       /\ pc \in {"await", "writing"} =>
            /\ Len(parts) <= nresp
            /\ \A m \in 1..Len(parts) :
                 parts[m] = Extract(translation_responses[nresp - Len(parts) + m].choices)
       /\ pc = "writing" =>
            /\ Len(parts) = Len(text_chunks)
            /\ translated_txt = << ConcatPayloads(SubSeq(translation_responses,
                                                        nresp - Len(text_chunks) + 1, nresp)) >>
            /\ translated_txt = << Upper(Join(text_chunks)) >>

C12_Witness ==
    /\ pc = "done"
    /\ source.keys = <<"b.tex", "m.tex", "a.tex">>
    /\ Len(translation_responses) = 4
    /\ \A n \in Names : \E i \in EventsOf("response") : events[i].body = n
    /\ translation_responses[1] # translation_responses[2]

Outstanding ==
    Cardinality(EventsOf("request")) - Cardinality(EventsOf("response"))
        - Cardinality(EventsOf("fail"))

\* C13: at most one completion request is outstanding, and one is exactly
\* while the run waits for the completion client; between two requests the
\* earlier one was answered or failed, and between the requests of two bodies
\* the artifact of the earlier body was written.
C13_OneOutstanding ==
    /\ Outstanding \in {0, 1}
    /\ Outstanding = 1 <=> pc = "await"
    /\ \A i, j \in EventsOf("request") :
         i < j =>
            /\ \E m \in EventsOf("response") \cup EventsOf("fail") :
                  /\ i < m /\ m < j
                  /\ events[m].body = events[i].body
                  /\ events[m].idx = events[i].idx
            /\ events[i].body # events[j].body =>
                  \E w \in EventsOf("write") :
                     i < w /\ w < j /\ events[w].body = events[i].body

C13_Witness ==
    /\ pc = "await"
    /\ cur # source.main_source
    /\ k = 2
    /\ \E i \in EventsOf("request") : events[i].body = source.main_source

DocPositions == { i \in 1..Len(source.nodes) : source.nodes[i].env }

RECURSIVE VerbatimOf(_)
VerbatimOf(nodes) ==
    IF nodes = <<>> THEN <<>>
    ELSE (IF Head(nodes).env
          THEN <<"\\begin{document}">> \o Head(nodes).text \o <<"\\end{document}">>
          ELSE Head(nodes).text) \o VerbatimOf(Tail(nodes))

Occurrences(t, text) == Cardinality({ i \in 1..Len(text) : text[i] = t })

\* C14: when one top-level node of the main source holds the document
\* environment, only the environment's inner text is submitted to translate,
\* and the main artifact is the verbatim text of the nodes before it, the
\* begin-document marker, the translated inner text, the end-document marker
\* and the verbatim text of the nodes after it; each of those nodes appears
\* once in the artifact.
C14_MainReconstruction ==
    Cardinality(DocPositions) = 1 =>
       LET d == CHOOSE i \in DocPositions : TRUE
           m == source.main_source
       IN /\ \A t \in EventsOf("translate") :
               events[t].body = m => events[t].data = source.nodes[d].text
          /\ \A w \in EventsOf("write") :
               events[w].body = m =>
                  /\ events[w].data[2] =
                        VerbatimOf(SubSeq(source.nodes, 1, d - 1))
                        \o <<"\n\\begin{document}\n">>
                        \o ConcatPayloads(SubSeq(translation_responses, 1, NumChunks(m)))
                        \o <<"\n\\end{document}">>
                        \o VerbatimOf(SubSeq(source.nodes, d + 1, Len(source.nodes)))
                  /\ \A i \in 1..Len(source.nodes) :
                        i # d => Occurrences(source.nodes[i].text[1], events[w].data[2]) = 1
                  /\ disk[<<"translated_", m>>] = events[w].data[2]

C14_Witness ==
    /\ pc = "done"
    /\ Len(source.nodes) = 3
    /\ Cardinality(DocPositions) = 1
    /\ NumChunks(source.main_source) = 2
    /\ disk[<<"translated_", "m.tex">>] =
          <<"%pre", "\n\\begin{document}\n", "W", "X", "\n\\end{document}", "%post">>

\* C16: when no top-level node of the main source holds a document
\* environment the run raises no error for it: all nodes go to the prefix in
\* order, the empty text is submitted to translate, no request is issued for
\* the main body, and the main artifact is the prefix, the begin-document
\* marker, the end-document marker and nothing else.
C16_MissingEnvironment ==
    (DocPositions = {} /\ run >= 1) =>
       LET m == source.main_source
           emitted == VerbatimOf(source.nodes)
                      \o <<"\n\\begin{document}\n">> \o <<"\n\\end{document}">>
       IN /\ text_before = VerbatimOf(source.nodes) \o <<"\n\\begin{document}\n">>
          /\ text_after = <<"\n\\end{document}">>
          /\ \A i \in EventsOf("raise") \cup EventsOf("request") : events[i].body # m
          /\ \E t \in EventsOf("translate") : events[t].body = m /\ events[t].data = <<>>
          /\ \/ pc = "writing" /\ cur = m /\ translated_txt = << <<>> >>
             \/ \E w \in EventsOf("write") :
                   /\ events[w].body = m
                   /\ events[w].data[2] = emitted
                   /\ disk[<<"translated_", m>>] = emitted

C16_Witness ==
    /\ DocPositions = {}
    /\ pc = "done"
    /\ translation_responses # <<>>
    /\ disk[<<"translated_", "m.tex">>] =
          <<"%pre", "%post", "\n\\begin{document}\n", "\n\\end{document}">>

\* the estimate of a text: its chunks, and one instruction token per chunk
\* plus every character twice (once in a prompt, once as the raw text)
ExpectedCost(text) ==
    LET n == Len(split_text(text, chunk_size))
    IN << n, n + 2 * Len(text) >>

RECURSIVE SumCost(_, _)
SumCost(bodies, c) ==
    IF bodies = {} THEN 0
    ELSE LET b == CHOOSE x \in bodies : TRUE
         IN ExpectedCost(BodyText(b))[c] + SumCost(bodies \ {b}, c)

\* C15: a call of estimate_tokens_cost or estimate_total_work leaves the run
\* state, the events of the run and the disk as they are; estimate_tokens_cost
\* returns the number of chunks of the text and the tokens of the chunks'
\* prompt messages plus the tokens of the text; estimate_total_work returns
\* the sums of these over the main body's inner text and the auxiliary bodies.
C15_Estimates ==
    [][ estimate' # estimate =>
          /\ UNCHANGED <<runVars, usage_result>>
          /\ estimate'[1] = "estimate_tokens_cost" =>
                estimate'[3] = ExpectedCost(estimate'[2])
          /\ estimate'[1] = "estimate_total_work" =>
                estimate'[3] = << SumCost(KeySet(source.keys), 1),
                                  SumCost(KeySet(source.keys), 2) >> ]_vars

C15_Witness ==
    /\ estimate # <<>>
    /\ estimate[1] = "estimate_total_work"
    /\ chunk_size = 2
    /\ Len(source.keys) = 3
    /\ estimate[3] = <<3, 11>>
    /\ pc = "idle"

\* C17: when a run is done, the chunk count of estimate_total_work is the
\* number of completion requests the run issued, which is translated_chunks
\* and the length of translation_responses.
C17_EstimateAgrees ==
    (pc = "done" /\ estimate # <<>> /\ estimate[1] = "estimate_total_work") =>
       /\ estimate[3][1] = Cardinality(EventsOf("request"))
       /\ estimate[3][1] = translated_chunks
       /\ estimate[3][1] = Len(translation_responses)

C17_Witness ==
    /\ pc = "done"
    /\ estimate # <<>>
    /\ estimate[1] = "estimate_total_work"
    /\ chunk_size = 2
    /\ estimate[3][1] = 3
    /\ Len(translation_responses) = 3

\* C18: whenever control is outside the per-chunk step of translate, after
\* an aborted run included, translated_chunks equals the length of
\* translation_responses, and neither exceeds the number of chunks submitted
\* so far in the run.
C18_CounterMatchesLog ==
    /\ translated_chunks = Len(translation_responses)
    /\ translated_chunks <= Cardinality(EventsOf("request"))
    /\ Len(translation_responses) <= Cardinality(EventsOf("request"))

RECURSIVE SumComplete(_, _)
SumComplete(responses, field) ==
    IF responses = <<>> THEN 0
    ELSE (IF /\ "usage" \in DOMAIN Head(responses)
             /\ DOMAIN Head(responses).usage = {"prompt_tokens", "completion_tokens"}
          THEN Head(responses).usage[field] ELSE 0)
         + SumComplete(Tail(responses), field)

\* C19: a response whose usage record lacks prompt_tokens or
\* completion_tokens contributes to neither total of get_total_usage: both
\* totals are sums over the responses with a complete usage record.
C19_AllOrNothing ==
    usage_result # <<>> =>
       usage_result = << << SumComplete(translation_responses, "prompt_tokens"),
                            SumComplete(translation_responses, "completion_tokens") >> >>

====
